---- MODULE Spec2Model ----
(***************************************************************************)
(* Fixture acquisition pipeline of HotTipsWithFriends: the cached entry    *)
(* point get_afl_fixtures (routes.py), the Squiggle API adapter            *)
(* get_afl_fixtures_api with its fallback generator, and the scraped-text  *)
(* parser parse_afl_fixture_text (web_scraper.py).                         *)
(*                                                                         *)
(* Text the code computes on (upstream date strings, page lines, team      *)
(* names) is a sequence of one-character strings; Str turns such a         *)
(* sequence into a TLA+ string.  Python's None is the empty sequence and a *)
(* present value v is <<v>>.  Time is counted in hours; the calendar day   *)
(* is a proleptic Gregorian ordinal as in datetime.toordinal().            *)
(***************************************************************************)
EXTENDS Integers, Sequences, FiniteSets, TLC

VARIABLES
    now,                  \* datetime.now(), in hours since 0001-01-01 00:00
    _afl_fixtures_cache,  \* routes._afl_fixtures_cache: None or <<fixtures>>
    _cache_timestamp,     \* routes._cache_timestamp: None or <<hours>>
    call,                 \* the last get_afl_fixtures call and its outcome
    api,                  \* the last direct get_afl_fixtures_api call
    text,                 \* the last parse / alias resolution on page text
    started,              \* the clock when the process started
    rounds,               \* the last rounds listing call and its outcome
    threads               \* the requests being served concurrently, by thread

vars == <<now, _afl_fixtures_cache, _cache_timestamp, call, api, text, started, rounds, threads>>

None == <<>>
Some(v) == <<v>>

-----------------------------------------------------------------------------
(* Bounds of the model.                                                    *)

\* the process starts on one of the days FirstDay .. FirstDay + MaxStartDay
MaxStartDay == 6
\* hours of wall-clock time the model lets pass after the start
MaxElapsed == 24
\* largest round number a request asks for
MaxRound == 1
\* games in one upstream response of the API and rounds specifications
MaxGames == 2
\* lines of the pages built from the line pool
MaxLines == 3
\* threads serving requests at the same time
MaxThreads == 2

\* Monday 2024-12-23 as datetime.date.toordinal()
FirstDay == 739243

-----------------------------------------------------------------------------
(* Characters and strings.                                                 *)

RECURSIVE Str(_)
Str(s) == IF s = <<>> THEN "" ELSE Head(s) \o Str(Tail(s))

Digits == <<"0", "1", "2", "3", "4", "5", "6", "7", "8", "9">>

IsDigit(c) == \E i \in 1..10 : Digits[i] = c

DigitVal(c) == (CHOOSE i \in 1..10 : Digits[i] = c) - 1

\* str.isspace() characters that occur in the inputs
IsSpace(c) == c \in {" ", "\t"}

\* the decimal text of n, zero-padded to w digits ('%04d', '%02d')
RECURSIVE Pad(_, _)
Pad(n, w) == IF w = 0 THEN <<>> ELSE Pad(n \div 10, w - 1) \o <<Digits[(n % 10) + 1]>>

\* int() of a run of digits
RECURSIVE IntOf(_)
IntOf(s) == IF s = <<>> THEN 0 ELSE 10 * IntOf(SubSeq(s, 1, Len(s) - 1)) + DigitVal(s[Len(s)])

-----------------------------------------------------------------------------
(* Calendar: datetime arithmetic, weekday() and strftime('%Y-%m-%d').      *)

Today(t) == t \div 24

\* date.weekday(): Monday is 0, Saturday is 5
weekday(ord) == (ord + 6) % 7

IsLeap(y) == y % 4 = 0 /\ (y % 100 # 0 \/ y % 400 = 0)

DaysInMonth(y, m) ==
    IF m = 2 THEN (IF IsLeap(y) THEN 29 ELSE 28)
    ELSE IF m \in {4, 6, 9, 11} THEN 30 ELSE 31

\* date.fromordinal(ord) as [y, m, d], computed in stages: the day of the
\* 400-year era, the year of the era, the day of the year, the month
YmdOfMonth(y0, doy, mp) ==
    [y |-> y0 + (IF mp < 10 THEN 0 ELSE 1),
     m |-> IF mp < 10 THEN mp + 3 ELSE mp - 9,
     d |-> doy - (153 * mp + 2) \div 5 + 1]

YmdOfDay(y0, doy) == YmdOfMonth(y0, doy, (5 * doy + 2) \div 153)

YmdOfYear(era, doe, yoe) ==
    YmdOfDay(yoe + era * 400, doe - (365 * yoe + yoe \div 4 - yoe \div 100))

YmdOfEra(era, doe) ==
    YmdOfYear(era, doe, (doe - doe \div 1460 + doe \div 36524 - doe \div 146096) \div 365)

Ord2Ymd(ord) == YmdOfEra((ord + 305) \div 146097, (ord + 305) % 146097)

\* '%Y-%m-%d' of the calendar date c
FormatYmd(c) == Str(Pad(c.y, 4) \o <<"-">> \o Pad(c.m, 2) \o <<"-">> \o Pad(c.d, 2))

\* strftime('%Y-%m-%d') of the day ord
strftime(ord) == FormatYmd(Ord2Ymd(ord))

Saturday == 5

\* the offset without the roll-over on a Saturday
days_until_saturday_same_day(t) == (Saturday - weekday(Today(t))) % 7

\* (5 - today.weekday()) % 7, a Saturday rolling a full week forward
days_until_saturday(t) ==
    IF (Saturday - weekday(Today(t))) % 7 = 0 THEN 7
    ELSE (Saturday - weekday(Today(t))) % 7

get_next_weekend_date(t) == strftime(Today(t) + days_until_saturday(t))

-----------------------------------------------------------------------------
(* Fallback generator.                                                     *)

\* the hardcoded roster of get_fallback_fixtures; day 0 is the Saturday
FallbackRoster ==
    << [id |-> 1, home_team |-> "Richmond", away_team |-> "Collingwood",
        venue |-> "MCG", day |-> 0, time |-> "19:50"],
       [id |-> 2, home_team |-> "Adelaide", away_team |-> "Port Adelaide",
        venue |-> "Adelaide Oval", day |-> 0, time |-> "13:45"],
       [id |-> 3, home_team |-> "Brisbane", away_team |-> "Gold Coast",
        venue |-> "Gabba", day |-> 0, time |-> "16:35"],
       [id |-> 4, home_team |-> "Geelong", away_team |-> "Carlton",
        venue |-> "GMHBA Stadium", day |-> 0, time |-> "19:25"],
       [id |-> 5, home_team |-> "Western Bulldogs", away_team |-> "Melbourne",
        venue |-> "Marvel Stadium", day |-> 1, time |-> "13:20"],
       [id |-> 6, home_team |-> "Sydney", away_team |-> "GWS Giants",
        venue |-> "SCG", day |-> 1, time |-> "15:20"],
       [id |-> 7, home_team |-> "West Coast", away_team |-> "Fremantle",
        venue |-> "Optus Stadium", day |-> 1, time |-> "18:10"],
       [id |-> 8, home_team |-> "St Kilda", away_team |-> "Essendon",
        venue |-> "Marvel Stadium", day |-> 1, time |-> "20:10"] >>

\* the roster dated on the given Saturday and Sunday
FallbackOn(sat_text, sun_text) ==
    [i \in 1..Len(FallbackRoster) |->
        [id |-> FallbackRoster[i].id,
         home_team |-> FallbackRoster[i].home_team,
         away_team |-> FallbackRoster[i].away_team,
         venue |-> FallbackRoster[i].venue,
         date |-> IF FallbackRoster[i].day = 0 THEN sat_text ELSE sun_text,
         time |-> FallbackRoster[i].time]]

\* get_fallback_fixtures() called at time t
get_fallback_fixtures(t) ==
    FallbackOn(strftime(Today(t) + days_until_saturday(t)),
               strftime(Today(t) + days_until_saturday(t) + 1))

-----------------------------------------------------------------------------
(* Date and time normalisation of the API's "YYYY-MM-DD HH:MM:SS" strings. *)

\* the index of the first whitespace character of s, Len(s) + 1 if none
RECURSIVE FirstSpace(_, _)
FirstSpace(s, i) ==
    IF i > Len(s) \/ IsSpace(s[i]) THEN i ELSE FirstSpace(s, i + 1)

\* str.split(): the maximal runs of non-whitespace characters
RECURSIVE split(_)
split(s) ==
    IF s = <<>> THEN <<>>
    ELSE IF IsSpace(Head(s)) THEN split(Tail(s))
    ELSE <<SubSeq(s, 1, FirstSpace(s, 1) - 1)>> \o split(SubSeq(s, FirstSpace(s, 1), Len(s)))

Contains(s, c) == \E i \in 1..Len(s) : s[i] = c

AllDigits(s) == \A i \in 1..Len(s) : IsDigit(s[i])

\* the year, month and day fields pass the range checks of datetime
ValidYmd(ys, ms, ds) ==
    /\ AllDigits(ys) /\ AllDigits(ms) /\ AllDigits(ds)
    /\ Len(ds) \in 1..2
    /\ IntOf(ys) >= 1
    /\ IntOf(ms) \in 1..12
    /\ IntOf(ds) >= 1
    /\ IntOf(ds) <= DaysInMonth(IntOf(ys), IntOf(ms))

\* datetime.strptime(s, '%Y-%m-%d') returns (no ValueError)
strptime_ok(s) ==
    /\ Len(s) >= 8
    /\ s[5] = "-"
    /\ \E j \in 7..8 :
          /\ j < Len(s)
          /\ s[j] = "-"
          /\ ValidYmd(SubSeq(s, 1, 4), SubSeq(s, 6, j - 1), SubSeq(s, j + 1, Len(s)))

\* date_str.split()[k] when date_str holds a space, else the whole string
\* for k = 1; None where the code raises IndexError or has no such part
Part(s, k, words) ==
    IF Contains(s, " ")
    THEN (IF Len(words) >= k THEN Some(words[k]) ELSE None)
    ELSE (IF k = 1 THEN Some(s) ELSE None)

\* format_game_date once date_part is known (None: IndexError)
date_or_weekend(date_part, t) ==
    IF date_part # None /\ strptime_ok(date_part[1]) THEN Str(date_part[1])
    ELSE get_next_weekend_date(t)

\* format_game_date(date_str) at time t; None and '' are both <<>>
format_game_date(date_str, t) ==
    date_or_weekend(IF date_str = <<>> THEN None
                    ELSE Part(date_str, 1, split(date_str)), t)

\* time_part[:5] if ':' in time_part else '15:00'
time_or_default(time_part) ==
    IF time_part # None /\ Contains(time_part[1], ":")
    THEN Str(SubSeq(time_part[1], 1, IF Len(time_part[1]) < 5 THEN Len(time_part[1]) ELSE 5))
    ELSE "15:00"

\* format_game_time(date_str)
format_game_time(date_str) ==
    time_or_default(IF date_str = <<>> THEN None
                    ELSE Part(date_str, 2, split(date_str)))

-----------------------------------------------------------------------------
(* Upstream responses of the results API.                                  *)

\* dict.get(key, default)
get(d, key, default) == IF key \in DOMAIN d THEN d[key] ELSE default

\* the decimal text of n >= 0, as an f-string prints it
RECURSIVE Decimal(_)
Decimal(n) == IF n < 10 THEN <<Digits[n + 1]>> ELSE Decimal(n \div 10) \o <<Digits[(n % 10) + 1]>>

\* upstream "date" strings: well formed, and the malformed shapes the
\* normaliser guards against
DateStrings ==
    { <<"2", "0", "2", "4", "-", "0", "3", "-", "1", "4", " ", "1", "9", ":", "3", "0", ":", "0", "0">>,
      <<"2", "0", "2", "4", "-", "0", "3", "-", "1", "5">>,
      <<"1", "4", "/", "0", "3", "/", "2", "0", "2", "4", " ", "1", "9", ":", "3", "0">>,
      <<"2", "0", "2", "4", "-", "0", "2", "-", "3", "0", " ", "1", "9", "3", "0">>,
      <<"2", "0", "2", "4", "-", "0", "3", "-", "1", "4", "T", "1", "9", ":", "3", "0">>,
      <<" ">>,
      <<>> }

GameKeys == {"id", "hteam", "ateam", "venue", "date", "round"}

\* the game with upstream id `id`: each id has its own pairing and venue
FullGame(id, date) ==
    [id |-> id,
     hteam |-> IF id = 1 THEN "Carlton" ELSE "Geelong",
     ateam |-> IF id = 1 THEN "Richmond" ELSE "Sydney",
     venue |-> IF id = 1 THEN "MCG" ELSE "GMHBA Stadium",
     date |-> date, round |-> id]

\* a game record restricted to the keys it carries
Carrying(g, keys) == [k \in keys |-> g[k]]

\* the game objects an upstream response is built from
GamePool ==
    {FullGame(1, d) : d \in DateStrings}
    \cup {FullGame(2, <<"2", "0", "2", "4", "-", "0", "3", "-", "1", "4", " ", "1", "9", ":", "3", "0", ":", "0", "0">>)}
    \cup {Carrying(FullGame(2, <<"2", "0", "2", "4", "-", "0", "3", "-", "1", "4", " ", "1", "9", ":", "3", "0", ":", "0", "0">>), GameKeys \ {k}) : k \in GameKeys}
    \cup {Carrying(FullGame(1, <<"2", "0", "2", "4", "-", "0", "3", "-", "1", "4", " ", "1", "9", ":", "3", "0", ":", "0", "0">>), {})}

RECURSIVE SeqsUpTo(_, _)
SeqsUpTo(S, n) ==
    IF n = 0 THEN {<<>>}
    ELSE LET shorter == SeqsUpTo(S, n - 1)
         IN  shorter \cup {Append(q, x) : q \in {r \in shorter : Len(r) = n - 1}, x \in S}

\* what requests.get / raise_for_status / response.json() can end in
FailureKinds == {"ConnectionError", "Timeout", "HTTPError", "InvalidJSON", "NotAnObject", "NoGamesKey", "BadGame"}

Failure(kind) == [kind |-> kind, games |-> <<>>]

\* HTTP 200 with a JSON object whose "games" is the list gs
GamesResponse(gs) == [kind |-> "Games", games |-> gs]

\* every outcome of the API specification
Responses ==
    {Failure(k) : k \in FailureKinds} \cup {GamesResponse(gs) : gs \in SeqsUpTo(GamePool, MaxGames)}

\* the outcomes the cache specification draws from
CacheResponses ==
    {Failure(k) : k \in FailureKinds}
    \cup {GamesResponse(<<>>),
          GamesResponse(<<FullGame(1, <<"2", "0", "2", "4", "-", "0", "3", "-", "1", "4", " ", "1", "9", ":", "3", "0", ":", "0", "0">>)>>),
          GamesResponse(<<FullGame(2, <<"2", "0", "2", "4", "-", "0", "3", "-", "1", "5">>)>>)}

-----------------------------------------------------------------------------
(* get_afl_fixtures_api.                                                   *)

\* Python truthiness of an optional integer (`if round_num:`)
Truthy(round_num) == round_num # None /\ round_num[1] # 0

\* the query the adapter sends: year, and round when round_num is truthy
api_url(year, round_num) ==
    [year |-> year, round |-> IF Truthy(round_num) THEN round_num ELSE None]

\* the fixture with the home and away keys exchanged
to_fixture_swapped(g, n, t) ==
    [id        |-> get(g, "id", n + 1),
     home_team |-> get(g, "ateam", "Unknown"),
     away_team |-> get(g, "hteam", "Unknown"),
     venue     |-> get(g, "venue", "TBA"),
     date      |-> format_game_date(get(g, "date", <<>>), t),
     time      |-> format_game_time(get(g, "date", <<>>)),
     round     |-> "Round " \o Str(Decimal(get(g, "round", 1)))]

\* the fixture built from game g when len(fixtures) = n
to_fixture(g, n, t) ==
    [id        |-> get(g, "id", n + 1),
     home_team |-> get(g, "hteam", "Unknown"),
     away_team |-> get(g, "ateam", "Unknown"),
     venue     |-> get(g, "venue", "TBA"),
     date      |-> format_game_date(get(g, "date", <<>>), t),
     time      |-> format_game_time(get(g, "date", <<>>)),
     round     |-> "Round " \o Str(Decimal(get(g, "round", 1)))]

RequestExceptions == {"ConnectionError", "Timeout", "HTTPError"}

\* the body of the try block: the exception it raises, or "none" and the
\* value it returns
api_try(resp, t) ==
    IF resp.kind \in RequestExceptions
    THEN [exc |-> resp.kind, value |-> <<>>, fallback |-> FALSE]
    ELSE IF resp.kind = "InvalidJSON"
    THEN [exc |-> "JSONDecodeError", value |-> <<>>, fallback |-> FALSE]
    ELSE IF resp.kind = "NotAnObject"
    THEN [exc |-> "AttributeError", value |-> <<>>, fallback |-> FALSE]
    ELSE IF resp.kind = "NoGamesKey" \/ (resp.kind = "Games" /\ resp.games = <<>>)
    THEN [exc |-> "none", value |-> get_fallback_fixtures(t), fallback |-> TRUE]
    ELSE IF resp.kind = "BadGame"
    THEN [exc |-> "AttributeError", value |-> <<>>, fallback |-> FALSE]
    ELSE [exc |-> "none",
          value |-> [i \in 1..Len(resp.games) |-> to_fixture(resp.games[i], i - 1, t)],
          fallback |-> FALSE]

\* exception classes the try block can raise
Exceptions == RequestExceptions \cup {"JSONDecodeError", "AttributeError"}

\* `except requests.RequestException`
except_RequestException(exc) == exc \in RequestExceptions

\* the handler without its catch-all clause
except_Exception_missing(exc) == FALSE

\* `except Exception`
except_Exception(exc) == exc \in Exceptions

\* what the function does with the outcome b of its try block
api_outcome(b, url, t) ==
    IF b.exc = "none"
    THEN [raised |-> "none", value |-> b.value, fallback |-> b.fallback, fetches |-> <<url>>]
    ELSE IF except_RequestException(b.exc) \/ except_Exception(b.exc)
    THEN [raised |-> "none", value |-> get_fallback_fixtures(t), fallback |-> TRUE,
          fetches |-> <<url>>]
    ELSE [raised |-> b.exc, value |-> <<>>, fallback |-> FALSE, fetches |-> <<url>>]

\* get_afl_fixtures_api(year, round_num) when the upstream answers resp at
\* time t: the exception that escapes ("none" when it returns), the value
\* returned, whether that value is the fallback data, the queries sent
get_afl_fixtures_api(year, round_num, resp, t) ==
    api_outcome(api_try(resp, t), api_url(year, round_num), t)

-----------------------------------------------------------------------------
(* The scraped-text parser: parse_afl_fixture_text and its helpers.        *)

UpperCase == <<"A", "B", "C", "D", "E", "F", "G", "H", "I", "J", "K", "L", "M", "N", "O", "P", "Q", "R", "S", "T", "U", "V", "W", "X", "Y", "Z">>

LowerCase == <<"a", "b", "c", "d", "e", "f", "g", "h", "i", "j", "k", "l", "m", "n", "o", "p", "q", "r", "s", "t", "u", "v", "w", "x", "y", "z">>

UpperSet == {UpperCase[i] : i \in 1..26}

LowerSet == {LowerCase[i] : i \in 1..26}

\* the lower-case form of each upper-case letter, and the converse
ToLower == [c \in UpperSet |-> LowerCase[CHOOSE k \in 1..26 : UpperCase[k] = c]]

ToUpper == [c \in LowerSet |-> UpperCase[CHOOSE k \in 1..26 : LowerCase[k] = c]]

IsLetter(c) == c \in UpperSet \/ c \in LowerSet

\* str.lower()
lower(s) == [i \in 1..Len(s) |-> IF s[i] \in UpperSet THEN ToLower[s[i]] ELSE s[i]]

\* str.upper()
upper(s) == [i \in 1..Len(s) |-> IF s[i] \in LowerSet THEN ToUpper[s[i]] ELSE s[i]]

\* `a in b` for strings
IsSubstring(a, b) == \E i \in 0..(Len(b) - Len(a)) : SubSeq(b, i + 1, i + Len(a)) = a

\* the index of the first non-whitespace character of s from i on
RECURSIVE FirstNonSpace(_, _)
FirstNonSpace(s, i) ==
    IF i > Len(s) \/ ~IsSpace(s[i]) THEN i ELSE FirstNonSpace(s, i + 1)

\* the index of the last non-whitespace character of s up to i
RECURSIVE LastNonSpace(_, _)
LastNonSpace(s, i) ==
    IF i < 1 \/ ~IsSpace(s[i]) THEN i ELSE LastNonSpace(s, i - 1)

\* str.strip()
strip(s) == SubSeq(s, FirstNonSpace(s, 1), LastNonSpace(s, Len(s)))

\* content.split('\n')
RECURSIVE split_lines(_)
split_lines(s) ==
    IF ~Contains(s, "\n") THEN <<s>>
    ELSE <<SubSeq(s, 1, (CHOOSE i \in 1..Len(s) : s[i] = "\n" /\ ~Contains(SubSeq(s, 1, i - 1), "\n")) - 1)>>
         \o split_lines(SubSeq(s, (CHOOSE i \in 1..Len(s) : s[i] = "\n" /\ ~Contains(SubSeq(s, 1, i - 1), "\n")) + 1, Len(s)))

\* the dict of team name variations, in insertion order
team_patterns ==
    << [team |-> "Adelaide",
        variations |-> << <<"A", "d", "e", "l", "a", "i", "d", "e">>,
                        <<"C", "r", "o", "w", "s">>,
                        <<"A", "d", "e", "l", "a", "i", "d", "e", " ", "C", "r", "o", "w", "s">> >>],
       [team |-> "Brisbane",
        variations |-> << <<"B", "r", "i", "s", "b", "a", "n", "e">>,
                        <<"L", "i", "o", "n", "s">>,
                        <<"B", "r", "i", "s", "b", "a", "n", "e", " ", "L", "i", "o", "n", "s">> >>],
       [team |-> "Carlton",
        variations |-> << <<"C", "a", "r", "l", "t", "o", "n">>,
                        <<"B", "l", "u", "e", "s">> >>],
       [team |-> "Collingwood",
        variations |-> << <<"C", "o", "l", "l", "i", "n", "g", "w", "o", "o", "d">>,
                        <<"M", "a", "g", "p", "i", "e", "s">>,
                        <<"P", "i", "e", "s">> >>],
       [team |-> "Essendon",
        variations |-> << <<"E", "s", "s", "e", "n", "d", "o", "n">>,
                        <<"B", "o", "m", "b", "e", "r", "s">> >>],
       [team |-> "Fremantle",
        variations |-> << <<"F", "r", "e", "m", "a", "n", "t", "l", "e">>,
                        <<"D", "o", "c", "k", "e", "r", "s">>,
                        <<"F", "r", "e", "o">> >>],
       [team |-> "Geelong",
        variations |-> << <<"G", "e", "e", "l", "o", "n", "g">>,
                        <<"C", "a", "t", "s">> >>],
       [team |-> "Gold Coast",
        variations |-> << <<"G", "o", "l", "d", " ", "C", "o", "a", "s", "t">>,
                        <<"S", "u", "n", "s">>,
                        <<"G", "o", "l", "d", " ", "C", "o", "a", "s", "t", " ", "S", "u", "n", "s">> >>],
       [team |-> "GWS Giants",
        variations |-> << <<"G", "W", "S">>,
                        <<"G", "i", "a", "n", "t", "s">>,
                        <<"G", "W", "S", " ", "G", "i", "a", "n", "t", "s">> >>],
       [team |-> "Hawthorn",
        variations |-> << <<"H", "a", "w", "t", "h", "o", "r", "n">>,
                        <<"H", "a", "w", "k", "s">> >>],
       [team |-> "Melbourne",
        variations |-> << <<"M", "e", "l", "b", "o", "u", "r", "n", "e">>,
                        <<"D", "e", "m", "o", "n", "s">> >>],
       [team |-> "North Melbourne",
        variations |-> << <<"N", "o", "r", "t", "h", " ", "M", "e", "l", "b", "o", "u", "r", "n", "e">>,
                        <<"K", "a", "n", "g", "a", "r", "o", "o", "s">>,
                        <<"N", "o", "r", "t", "h">> >>],
       [team |-> "Port Adelaide",
        variations |-> << <<"P", "o", "r", "t", " ", "A", "d", "e", "l", "a", "i", "d", "e">>,
                        <<"P", "o", "w", "e", "r">>,
                        <<"P", "o", "r", "t">> >>],
       [team |-> "Richmond",
        variations |-> << <<"R", "i", "c", "h", "m", "o", "n", "d">>,
                        <<"T", "i", "g", "e", "r", "s">> >>],
       [team |-> "St Kilda",
        variations |-> << <<"S", "t", " ", "K", "i", "l", "d", "a">>,
                        <<"S", "a", "i", "n", "t", "s">> >>],
       [team |-> "Sydney",
        variations |-> << <<"S", "y", "d", "n", "e", "y">>,
                        <<"S", "w", "a", "n", "s">>,
                        <<"S", "y", "d", "n", "e", "y", " ", "S", "w", "a", "n", "s">> >>],
       [team |-> "West Coast",
        variations |-> << <<"W", "e", "s", "t", " ", "C", "o", "a", "s", "t">>,
                        <<"E", "a", "g", "l", "e", "s">>,
                        <<"W", "e", "s", "t", " ", "C", "o", "a", "s", "t", " ", "E", "a", "g", "l", "e", "s">> >>],
       [team |-> "Western Bulldogs",
        variations |-> << <<"W", "e", "s", "t", "e", "r", "n", " ", "B", "u", "l", "l", "d", "o", "g", "s">>,
                        <<"B", "u", "l", "l", "d", "o", "g", "s">>,
                        <<"D", "o", "g", "s">> >>] >>

\* the venue names extract_venue_from_context looks for, in order
venues ==
    << <<"M", "C", "G">>,
       <<"M", "a", "r", "v", "e", "l", " ", "S", "t", "a", "d", "i", "u", "m">>,
       <<"A", "d", "e", "l", "a", "i", "d", "e", " ", "O", "v", "a", "l">>,
       <<"G", "a", "b", "b", "a">>,
       <<"S", "C", "G">>,
       <<"O", "p", "t", "u", "s", " ", "S", "t", "a", "d", "i", "u", "m">>,
       <<"G", "M", "H", "B", "A", " ", "S", "t", "a", "d", "i", "u", "m">>,
       <<"T", "I", "O", " ", "S", "t", "a", "d", "i", "u", "m">>,
       <<"B", "l", "u", "n", "d", "s", "t", "o", "n", "e", " ", "A", "r", "e", "n", "a">>,
       <<"M", "a", "n", "u", "k", "a", " ", "O", "v", "a", "l">>,
       <<"S", "t", "a", "d", "i", "u", "m", " ", "A", "u", "s", "t", "r", "a", "l", "i", "a">>,
       <<"P", "e", "o", "p", "l", "e", " ", "F", "i", "r", "s", "t", " ", "S", "t", "a", "d", "i", "u", "m">>,
       <<"H", "e", "r", "i", "t", "a", "g", "e", " ", "B", "a", "n", "k", " ", "S", "t", "a", "d", "i", "u", "m">>,
       <<"G", "I", "A", "N", "T", "S", " ", "S", "t", "a", "d", "i", "u", "m">> >>

\* the regular expression ([A-Za-z\s]+?)\s+(?:v|vs|V|VS)\s+([A-Za-z\s]+)

\* [A-Za-z\s]
InClass(c) == IsLetter(c) \/ IsSpace(c)

\* (?:v|vs|V|VS)\s at index f: the index of the whitespace after the
\* separator, 0 when there is none
SepEnd(l, f) ==
    IF f > Len(l) \/ l[f] \notin {"v", "V"} THEN 0
    ELSE IF f + 1 <= Len(l) /\ IsSpace(l[f + 1]) THEN f + 1
    ELSE IF /\ f + 2 <= Len(l)
            /\ l[f + 1] = (IF l[f] = "v" THEN "s" ELSE "S")
            /\ IsSpace(l[f + 2])
    THEN f + 2
    ELSE 0

\* \s+([A-Za-z\s]+) from the whitespace at g, whose run ends before hm: the
\* greedy \s+ gives one character back when no class character follows it;
\* the index where group 2 starts, 0 when it cannot match
Group2From(l, g, hm) ==
    IF g = 0 THEN 0
    ELSE IF hm <= Len(l) /\ InClass(l[hm]) THEN hm
    ELSE IF hm - g >= 2 THEN hm - 1
    ELSE 0

Group2Start(l, g) == Group2From(l, g, FirstNonSpace(l, g))

\* the pattern matches with group 1 = l[s..e-1]
MatchAt(l, s, e) ==
    /\ s < e
    /\ e <= Len(l)
    /\ IsSpace(l[e])
    /\ Group2Start(l, SepEnd(l, FirstNonSpace(l, e))) # 0
    /\ \A i \in s..(e - 1) : InClass(l[i])

\* the first index from h on that is not in [A-Za-z\s]
RECURSIVE ClassEnd(_, _)
ClassEnd(l, h) == IF h > Len(l) \/ ~InClass(l[h]) THEN h ELSE ClassEnd(l, h + 1)

\* the groups of the match with group 1 = l[s..e-1], group 2 from h
Groups(l, s, e, h) ==
    [team1 |-> strip(SubSeq(l, s, e - 1)), team2 |-> strip(SubSeq(l, h, ClassEnd(l, h) - 1))]

\* the match re.search returns among the candidates ms: leftmost start,
\* then the shortest group 1 (it is lazy)
FirstMatch(l, ms) ==
    IF ms = {} THEN None
    ELSE Some(CHOOSE m \in ms : \A o \in ms : m[1] < o[1] \/ (m[1] = o[1] /\ m[2] <= o[2]))

\* the stripped groups of the match m = <<<<s, e>>>>, None for no match
GroupsOf(l, m) ==
    IF m = None THEN None
    ELSE Some(Groups(l, m[1][1], m[1][2],
                     Group2Start(l, SepEnd(l, FirstNonSpace(l, m[1][2])))))

\* re.search(pattern, line): None, or <<[team1, team2]>>
vs_match(l) ==
    GroupsOf(l, FirstMatch(l, {m \in (1..Len(l)) \X (1..Len(l)) : MatchAt(l, m[1], m[2])}))

\* some variation of team k occurs in the lower-cased name
TeamMatches(k, lname) ==
    \E v \in 1..Len(team_patterns[k].variations) :
        IsSubstring(lower(team_patterns[k].variations[v]), lname)

\* is_valid_team_name(name, team_patterns)
is_valid_team_name(name) ==
    /\ Len(strip(name)) >= 3
    /\ Len(strip(name)) <= 20
    /\ \E k \in 1..Len(team_patterns) : TeamMatches(k, lower(strip(name)))

\* the first team, in dict order, one of whose variations occurs in lname
FirstTeam(lname) ==
    IF \E k \in 1..Len(team_patterns) : TeamMatches(k, lname)
    THEN Some(team_patterns[CHOOSE k \in 1..Len(team_patterns) :
                  /\ TeamMatches(k, lname)
                  /\ \A j \in 1..(k - 1) : ~TeamMatches(j, lname)].team)
    ELSE None

\* normalize_team_name(name, team_patterns): None or <<canonical name>>
normalize_team_name(name) == FirstTeam(lower(strip(name)))

\* the first listed venue that occurs in the lower-cased line, 0 if none
VenueIn(lline) ==
    IF \E v \in 1..Len(venues) : IsSubstring(lower(venues[v]), lline)
    THEN CHOOSE v \in 1..Len(venues) :
            /\ IsSubstring(lower(venues[v]), lline)
            /\ \A u \in 1..(v - 1) : ~IsSubstring(lower(venues[u]), lline)
    ELSE 0

\* the lines of the window that name a venue
VenueLines(lines, lo, hi) == {j \in lo..hi : VenueIn(lower(strip(lines[j]))) # 0}

\* the venue of the first line of the window that names one
FirstVenue(lines, js) ==
    IF js = {} THEN "TBA"
    ELSE Str(venues[VenueIn(lower(strip(lines[CHOOSE j \in js : \A o \in js : j <= o])))])

\* extract_venue_from_context(lines, current_index), lines indexed from 1
extract_venue_from_context(lines, i) ==
    FirstVenue(lines, VenueLines(lines, IF i - 2 < 1 THEN 1 ELSE i - 2,
                                        IF i + 2 > Len(lines) THEN Len(lines) ELSE i + 2))

\* the teams of line i when it yields a fixture, None otherwise
Pairing(m) ==
    IF /\ m # None
       /\ is_valid_team_name(m[1].team1)
       /\ is_valid_team_name(m[1].team2)
       /\ normalize_team_name(m[1].team1) # normalize_team_name(m[1].team2)
    THEN Some([home_team |-> normalize_team_name(m[1].team1)[1],
               away_team |-> normalize_team_name(m[1].team2)[1]])
    ELSE None

\* the fixture appended for line i, with the given id
text_fixture(lines, i, pair, fixture_id, t) ==
    [id |-> fixture_id, home_team |-> pair.home_team, away_team |-> pair.away_team,
     venue |-> extract_venue_from_context(lines, i),
     date |-> get_next_weekend_date(t), time |-> "15:00", round |-> "Round 1"]

\* the loop of parse_afl_fixture_text from line i on
RECURSIVE parse_from(_, _, _, _, _)
parse_from(lines, pairs, i, fixture_id, t) ==
    IF i > Len(lines) THEN <<>>
    ELSE IF pairs[i] = None THEN parse_from(lines, pairs, i + 1, fixture_id, t)
    ELSE <<text_fixture(lines, i, pairs[i][1], fixture_id, t)>>
         \o parse_from(lines, pairs, i + 1, fixture_id + 1, t)

\* the loop over the lines, each line's pairing worked out once
parse_lines(lines, t) ==
    parse_from(lines, [i \in 1..Len(lines) |-> Pairing(vs_match(strip(lines[i])))], 1, 1, t)

\* parse_afl_fixture_text(content) called at time t
parse_afl_fixture_text(content, t) == parse_lines(split_lines(content), t)


-----------------------------------------------------------------------------
(* get_afl_fixtures: the cached entry point of routes.py.                  *)

\* timedelta(hours=12)
FreshHours == 12

\* the freshness test with the age taken in minutes
cache_valid_minutes(ts, cache, t) ==
    /\ ts # None
    /\ cache # None
    /\ cache[1] # <<>>
    /\ (t - ts[1]) * 60 < FreshHours

\* the freshness test with the boundary included
cache_valid_inclusive(ts, cache, t) ==
    /\ ts # None
    /\ cache # None
    /\ cache[1] # <<>>
    /\ t - ts[1] <= FreshHours

\* `_cache_timestamp and _afl_fixtures_cache` with the entry still fresh
cache_valid(ts, cache, t) ==
    /\ ts # None
    /\ cache # None
    /\ cache[1] # <<>>
    /\ t - ts[1] < FreshHours

\* a specific round: the adapter's answer, the cache left alone
bypass(r, ts, cache) ==
    [raised |-> r.raised, value |-> r.value, fallback |-> r.fallback,
     fetches |-> r.fetches, hit |-> FALSE, ts |-> ts, cache |-> cache]

\* the default view on a miss: the adapter's answer, stored when non-empty
refresh(r, t, ts, cache) ==
    [raised |-> r.raised, value |-> r.value, fallback |-> r.fallback,
     fetches |-> r.fetches, hit |-> FALSE,
     ts |-> IF r.raised = "none" /\ r.value # <<>> THEN Some(t) ELSE ts,
     cache |-> IF r.raised = "none" /\ r.value # <<>> THEN Some(r.value) ELSE cache]

\* get_afl_fixtures(round_num) at time t with the upstream answering resp:
\* the outcome of the call, and the cache it leaves
get_afl_fixtures(round_num, resp, t, ts, cache) ==
    IF Truthy(round_num)
    THEN bypass(get_afl_fixtures_api(2024, round_num, resp, t), ts, cache)
    ELSE IF cache_valid(ts, cache, t)
    THEN [raised |-> "none", value |-> cache[1], fallback |-> FALSE,
          fetches |-> <<>>, hit |-> TRUE, ts |-> ts, cache |-> cache]
    ELSE refresh(get_afl_fixtures_api(2025, None, resp, t), t, ts, cache)

\* the round query parameter: absent, or an integer
RoundArgs == {None} \cup {Some(n) : n \in 0..MaxRound}

NoCall ==
    [op |-> "none", round_num |-> None, resp |-> Failure("Timeout"), raised |-> "none",
     value |-> <<>>, fallback |-> FALSE, fetches |-> <<>>, hit |-> FALSE]

NoText == [op |-> "none", input |-> <<>>, fixtures |-> <<>>, valid |-> FALSE, team |-> None]

NoRounds == [op |-> "none", year |-> 0, resp |-> Failure("Timeout"), value |-> <<>>, fetches |-> <<>>]

\* no request is being served
NoThreads == <<>>

\* the clock at process start: midnight of one of the start days
StartTimes == {(FirstDay + d) * 24 : d \in 0..MaxStartDay}

Init ==
    /\ now \in StartTimes
    /\ started = now
    /\ _afl_fixtures_cache = None
    /\ _cache_timestamp = None
    /\ call = NoCall
    /\ api = NoCall
    /\ text = NoText
    /\ rounds = NoRounds
    /\ threads = NoThreads

\* wall-clock time passes between requests
Tick(h) ==
    /\ now + h - started <= MaxElapsed
    /\ now' = now + h
    /\ UNCHANGED <<started, _afl_fixtures_cache, _cache_timestamp, call, api, text, rounds, threads>>

\* one request served by get_afl_fixtures (GET /api/fixtures, /submit-tips)
Request(round_num, resp) ==
    \E r \in {get_afl_fixtures(round_num, resp, now, _cache_timestamp, _afl_fixtures_cache)} :
        /\ _afl_fixtures_cache' = r.cache
        /\ _cache_timestamp' = r.ts
        /\ call' = [op |-> "get_afl_fixtures", round_num |-> round_num, resp |-> resp,
                    raised |-> r.raised, value |-> r.value, fallback |-> r.fallback,
                    fetches |-> r.fetches, hit |-> r.hit]
        /\ UNCHANGED <<now, started, api, text, rounds, threads>>

\* the clock is observed every six hours
TickHours == {6}

Next ==
    \/ \E h \in TickHours : Tick(h)
    \/ \E round_num \in RoundArgs, resp \in CacheResponses : Request(round_num, resp)

Spec == Init /\ [][Next]_vars

-----------------------------------------------------------------------------
(* The adapter on its own: one call of get_afl_fixtures_api per behaviour, *)
(* its arguments, the upstream answer and the day drawn at the start.      *)

\* the two ways routes.py calls the adapter
ApiArgs == {<<2025, None>>, <<2024, Some(1)>>}

PendingApi(year, round_num, resp) ==
    [op |-> "pending", year |-> year, round_num |-> round_num, resp |-> resp,
     raised |-> "none", value |-> <<>>, fallback |-> FALSE, fetches |-> <<>>]

InitApi ==
    /\ now \in StartTimes
    /\ started = now
    /\ _afl_fixtures_cache = None
    /\ _cache_timestamp = None
    /\ call = NoCall
    /\ text = NoText
    /\ rounds = NoRounds
    /\ threads = NoThreads
    /\ api \in {PendingApi(a[1], a[2], resp) : a \in ApiArgs, resp \in Responses}

ApiCall ==
    /\ api.op = "pending"
    /\ \E r \in {get_afl_fixtures_api(api.year, api.round_num, api.resp, now)} :
          api' = [op |-> "get_afl_fixtures_api", year |-> api.year,
                  round_num |-> api.round_num, resp |-> api.resp,
                  raised |-> r.raised, value |-> r.value, fallback |-> r.fallback,
                  fetches |-> r.fetches]
    /\ UNCHANGED <<now, started, _afl_fixtures_cache, _cache_timestamp, call, text, rounds, threads>>

NextApi == ApiCall

SpecApi == InitApi /\ [][NextApi]_vars

-----------------------------------------------------------------------------
(* The parser on its own: one call of parse_afl_fixture_text on a page, or *)
(* one resolution of a team name, per behaviour.                           *)

\* lines a scraped fixture page is made of
LinePool ==
    { <<"A", "d", "e", "l", "a", "i", "d", "e", " ", "v", " ", "P", "o", "r", "t", " ", "A", "d", "e", "l", "a", "i", "d", "e">>,
      <<"A", "d", "e", "l", "a", "i", "d", "e", " ", "O", "v", "a", "l">>,
      <<"7", ":", "4", "0", "p", "m">>,
      <<"P", "i", "e", "s", " ", "v", "s", " ", "F", "r", "e", "o">>,
      <<"C", "a", "t", "s", " ", "V", " ", "S", "w", "a", "n", "s">>,
      <<>> }

\* '\n'.join(lines)
RECURSIVE join_lines(_)
join_lines(lines) ==
    IF Len(lines) = 1 THEN lines[1]
    ELSE lines[1] \o <<"\n">> \o join_lines(Tail(lines))

\* a page listing one full round, nine matches between the eighteen clubs
FullRound ==
    << <<"C", "r", "o", "w", "s", " ", "v", " ", "L", "i", "o", "n", "s">>,
       <<"C", "a", "r", "l", "t", "o", "n", " ", "v", " ", "C", "o", "l", "l", "i", "n", "g", "w", "o", "o", "d">>,
       <<"E", "s", "s", "e", "n", "d", "o", "n", " ", "v", " ", "F", "r", "e", "m", "a", "n", "t", "l", "e">>,
       <<"G", "e", "e", "l", "o", "n", "g", " ", "v", " ", "S", "u", "n", "s">>,
       <<"G", "i", "a", "n", "t", "s", " ", "v", " ", "H", "a", "w", "t", "h", "o", "r", "n">>,
       <<"D", "e", "m", "o", "n", "s", " ", "v", " ", "K", "a", "n", "g", "a", "r", "o", "o", "s">>,
       <<"P", "o", "w", "e", "r", " ", "v", " ", "R", "i", "c", "h", "m", "o", "n", "d">>,
       <<"S", "a", "i", "n", "t", "s", " ", "v", " ", "S", "w", "a", "n", "s">>,
       <<"E", "a", "g", "l", "e", "s", " ", "v", " ", "B", "u", "l", "l", "d", "o", "g", "s">> >>

\* the pages parsed: every page of up to MaxLines pool lines, and the full round
Contents ==
    {join_lines(ls) : ls \in SeqsUpTo(LinePool, MaxLines) \ {<<>>}} \cup {join_lines(FullRound)}

\* every variation the table lists
Variations ==
    UNION {{team_patterns[k].variations[v] : v \in 1..Len(team_patterns[k].variations)} :
             k \in 1..Len(team_patterns)}

\* the listed variations as written, in lower and in upper case, and
\* names that are no team's
Names ==
    Variations \cup {lower(v) : v \in Variations} \cup {upper(v) : v \in Variations}
    \cup {<<"R", "o", "u", "n", "d">>, <<"G", "o">>}

PendingText(op, input) ==
    [op |-> op, input |-> input, fixtures |-> <<>>, valid |-> FALSE, team |-> None]

InitText ==
    /\ now \in StartTimes
    /\ started = now
    /\ _afl_fixtures_cache = None
    /\ _cache_timestamp = None
    /\ call = NoCall
    /\ api = NoCall
    /\ rounds = NoRounds
    /\ threads = NoThreads
    /\ text \in {PendingText("page", c) : c \in Contents}
                \cup {PendingText("name", n) : n \in Names}

ParseText ==
    /\ text.op = "page"
    /\ text' = [op |-> "parse_afl_fixture_text", input |-> text.input,
                fixtures |-> parse_afl_fixture_text(text.input, now),
                valid |-> FALSE, team |-> None]
    /\ UNCHANGED <<now, started, _afl_fixtures_cache, _cache_timestamp, call, api, rounds, threads>>

ResolveName ==
    /\ text.op = "name"
    /\ text' = [op |-> "normalize_team_name", input |-> text.input, fixtures |-> <<>>,
                valid |-> is_valid_team_name(text.input),
                team |-> normalize_team_name(text.input)]
    /\ UNCHANGED <<now, started, _afl_fixtures_cache, _cache_timestamp, call, api, rounds, threads>>

NextText == ParseText \/ ResolveName

SpecText == InitText /\ [][NextText]_vars

-----------------------------------------------------------------------------
(* Properties of the cached entry point, under Spec.                       *)

\* a step of Spec that serves a request (a Tick moves the clock)
RequestStep == now' = now /\ call'.op = "get_afl_fixtures"

\* C1: whatever the upstream does (network error, timeout, bad status,
\* malformed or non-JSON body, missing or empty games, or a valid response),
\* get_afl_fixtures returns normally and its result is never empty.
C1_NeverEmptyNeverRaises ==
    call.op = "get_afl_fixtures" => call.raised = "none" /\ call.value # <<>>

C1_Witness ==
    /\ call.op = "get_afl_fixtures"
    /\ call.resp.kind \in {"NotAnObject", "BadGame"}
    /\ call.round_num # None
    /\ Len(call.value) = 8

\* C2: a default (no round) call made while an entry exists and less than
\* 12 hours have passed since its fetched_at returns exactly the stored
\* fixtures and sends nothing upstream; so a default call that follows a
\* default call inside the window returns the same sequence.
C2_FreshEntryIsServed ==
    [][ (/\ RequestStep
         /\ call'.round_num = None
         /\ _afl_fixtures_cache # None
         /\ _cache_timestamp # None
         /\ now - _cache_timestamp[1] < 12)
        => /\ call'.raised = "none"
           /\ call'.value = _afl_fixtures_cache[1]
           /\ call'.fetches = <<>>
           /\ (call.op = "get_afl_fixtures" /\ call.round_num = None
                 => call'.value = call.value) ]_vars

C2_Witness ==
    /\ call.op = "get_afl_fixtures"
    /\ call.round_num = None
    /\ call.hit
    /\ now - _cache_timestamp[1] = 6

\* C3: every call that specifies a round number bypasses the cache: it
\* sends one upstream query for that round, is not answered from the
\* cache, and leaves the cached fixtures and the timestamp unchanged.
C3_RoundBypassesCache ==
    [][ (RequestStep /\ call'.round_num # None)
        => /\ ~call'.hit
           /\ Len(call'.fetches) = 1
           /\ call'.fetches[1].round = call'.round_num
           /\ _afl_fixtures_cache' = _afl_fixtures_cache
           /\ _cache_timestamp' = _cache_timestamp ]_vars

\* C4: the entry is created or overwritten only by a request whose upstream
\* fetch succeeded with a non-empty result; a request answered with
\* fallback data leaves the entry as it was; the entry is never deleted.
C4_OnlySuccessIsCached ==
    [][ RequestStep
        => /\ (<<_afl_fixtures_cache, _cache_timestamp>>' # <<_afl_fixtures_cache, _cache_timestamp>>
                 => ~call'.fallback /\ call'.value # <<>> /\ call'.fetches # <<>>)
           /\ (call'.fallback
                 => <<_afl_fixtures_cache, _cache_timestamp>>' = <<_afl_fixtures_cache, _cache_timestamp>>)
           /\ (_afl_fixtures_cache # None => _afl_fixtures_cache' # None) ]_vars

\* C5: a default call that finds no entry, or an entry fetched 12 hours or
\* more before the call (exactly 12 hours is expired), sends exactly one
\* upstream query, returns what that fetch produced, and when that is
\* non-empty leaves the entry equal to {fixtures: result, fetched_at: now}.
C5_MissFetchesOnceAndStores ==
    [][ (/\ RequestStep
         /\ call'.round_num = None
         /\ (\/ _afl_fixtures_cache = None
             \/ _cache_timestamp = None
             \/ now - _cache_timestamp[1] >= 12))
        => /\ Len(call'.fetches) = 1
           /\ call'.value = get_afl_fixtures_api(2025, None, call'.resp, now).value
           /\ (call'.value # <<>>
                 => /\ _afl_fixtures_cache' = Some(call'.value)
                    /\ _cache_timestamp' = Some(now)) ]_vars

C5_Witness ==
    /\ call.op = "get_afl_fixtures"
    /\ call.round_num = None
    /\ ~call.hit
    /\ _cache_timestamp = Some(now)
    /\ now - started >= 12
    /\ ~call.fallback

-----------------------------------------------------------------------------
(* Properties of the adapter, under SpecApi.                               *)

ApiDone == api.op = "get_afl_fixtures_api"

\* the upstream outcomes in which the adapter has no games to convert
AdapterFailed ==
    api.resp.kind \in FailureKinds \/ (api.resp.kind = "Games" /\ api.resp.games = <<>>)

\* the first Saturday strictly after the day `today` (2024-12-28, ordinal
\* 739248, was a Saturday)
NextSaturdayAfter(today) ==
    CHOOSE d \in (today + 1)..(today + 7) : (d - 739248) % 7 = 0

\* C6: when the upstream adapter fails, the fetch returns exactly 8
\* fallback fixtures with ids 1..8, none with venue "TBA", each dated on
\* the first Saturday strictly after the current day or on the Sunday that
\* follows it, whatever the current weekday.
C6_FallbackOnFailure ==
    (ApiDone /\ AdapterFailed)
    => /\ api.raised = "none"
       /\ Len(api.value) = 8
       /\ \A i \in 1..Len(api.value) :
             /\ api.value[i].id = i
             /\ api.value[i].venue # "TBA"
             /\ api.value[i].date \in {strftime(NextSaturdayAfter(Today(now))),
                                       strftime(NextSaturdayAfter(Today(now)) + 1)}
       /\ \E i \in 1..Len(api.value) :
             api.value[i].date = strftime(NextSaturdayAfter(Today(now)))

C6_Witness ==
    /\ ApiDone
    /\ api.resp.kind = "Timeout"
    /\ weekday(Today(now)) = 5
    /\ api.value[1].date = "2025-01-04"
    /\ api.value[8].date = "2025-01-05"

\* C7: for a valid response with at least one game the adapter returns one
\* fixture per game, in the same order, each with id, home_team, away_team,
\* venue, date and time populated, and the teams are those of the game (never
\* "Unknown") when the game carries hteam / ateam.
C7_OneFixturePerGame ==
    (ApiDone /\ api.resp.kind = "Games" /\ Len(api.resp.games) >= 1)
    => /\ api.raised = "none"
       /\ ~api.fallback
       /\ Len(api.value) = Len(api.resp.games)
       /\ \A i \in 1..Len(api.value) :
             /\ api.value[i].id \in Nat
             /\ "id" \in DOMAIN api.resp.games[i] => api.value[i].id = api.resp.games[i].id
             /\ "hteam" \in DOMAIN api.resp.games[i]
                   => /\ api.value[i].home_team = api.resp.games[i].hteam
                      /\ api.value[i].home_team # "Unknown"
             /\ "ateam" \in DOMAIN api.resp.games[i]
                   => /\ api.value[i].away_team = api.resp.games[i].ateam
                      /\ api.value[i].away_team # "Unknown"
             /\ "venue" \in DOMAIN api.resp.games[i]
                   => api.value[i].venue = api.resp.games[i].venue
             /\ api.value[i].home_team # ""
             /\ api.value[i].away_team # ""
             /\ api.value[i].venue # ""
             /\ Len(api.value[i].date) >= 8
             /\ Len(api.value[i].time) >= 1

C7_Witness ==
    /\ ApiDone
    /\ api.resp.kind = "Games"
    /\ Len(api.resp.games) = 2
    /\ DOMAIN api.resp.games[1] = {}
    /\ api.value[1].home_team = "Unknown"
    /\ api.value[1].time = "15:00"
    /\ api.value[2].home_team = "Geelong"
    /\ api.value[2].date = "2024-03-14"
    /\ api.value[2].time = "19:30"

\* every id of the batch is a positive integer and no two are equal
UniquePositiveIds(fixtures) ==
    /\ \A i \in 1..Len(fixtures) : fixtures[i].id \in Nat \ {0}
    /\ \A i, j \in 1..Len(fixtures) : i # j => fixtures[i].id # fixtures[j].id

\* C8: in every batch a single fetch returns (API-normalised, text-parsed
\* or fallback) each fixture's id is a positive integer and no two fixtures
\* share an id, also when only some upstream games carry their own id.
C8_BatchIdsUnique ==
    /\ ApiDone => UniquePositiveIds(api.value)
    /\ text.op = "parse_afl_fixture_text" => UniquePositiveIds(text.fixtures)

-----------------------------------------------------------------------------
(* Properties of the text parser, under SpecText.                          *)

\* line i of the page is `line`
LineAt(lines, i, line) == i \in 1..Len(lines) /\ lines[i] = line

\* C9: page text with the line "Adelaide v Port Adelaide" and the lines
\* "Adelaide Oval" and "7:40pm" within two lines of it yields a fixture
\* with home_team "Adelaide", away_team "Port Adelaide", venue
\* "Adelaide Oval" and time "19:40".
C9_AdelaideDerbyParsed ==
    (/\ text.op = "parse_afl_fixture_text"
     /\ \E i \in 1..Len(split_lines(text.input)) :
           /\ LineAt(split_lines(text.input), i, <<"A", "d", "e", "l", "a", "i", "d", "e", " ", "v", " ", "P", "o", "r", "t", " ", "A", "d", "e", "l", "a", "i", "d", "e">>)
           /\ \E j \in (i - 2)..(i + 2) : LineAt(split_lines(text.input), j, <<"A", "d", "e", "l", "a", "i", "d", "e", " ", "O", "v", "a", "l">>)
           /\ \E j \in (i - 2)..(i + 2) : LineAt(split_lines(text.input), j, <<"7", ":", "4", "0", "p", "m">>))
    => \E n \in 1..Len(text.fixtures) :
          /\ text.fixtures[n].home_team = "Adelaide"
          /\ text.fixtures[n].away_team = "Port Adelaide"
          /\ text.fixtures[n].venue = "Adelaide Oval"
          /\ text.fixtures[n].time = "19:40"

\* C10: alias resolution is case-insensitive and maps every official name,
\* nickname or abbreviation the table lists for a team to that team, for
\* all 18 teams and all listed variations.
C10_AliasResolvesToItsTeam ==
    text.op = "normalize_team_name"
    => \A k \in 1..Len(team_patterns) :
          (\E v \in 1..Len(team_patterns[k].variations) :
              lower(team_patterns[k].variations[v]) = lower(text.input))
          => text.team = Some(team_patterns[k].team)

-----------------------------------------------------------------------------
(* The rounds listing: get_all_rounds_2024 and get_all_rounds_2025, the    *)
(* same body for the two seasons.                                          *)

\* game.get('round'): None when the game carries no round
RoundOf(game) == IF "round" \in DOMAIN game THEN Some(game.round) ELSE None

\* the set the loop over data.get('games', []) collects: falsy rounds skipped
round_set(games) ==
    {games[i].round : i \in {j \in 1..Len(games) : Truthy(RoundOf(games[j]))}}

Least(S) == CHOOSE x \in S : \A y \in S : x <= y

\* sorted(rounds)
RECURSIVE sorted(_)
sorted(S) == IF S = {} THEN <<>> ELSE <<Least(S)>> \o sorted(S \ {Least(S)})

\* the names of the finals weeks the code tabulates
finals_names ==
    (24 :> "Elimination Finals") @@ (25 :> "Qualifying Finals") @@ (26 :> "Semi Finals")
    @@ (27 :> "Preliminary Finals") @@ (28 :> "Grand Final")

\* the name with the finals weeks counted from round 24 instead of round 23
round_name_from_24(round_num) ==
    IF round_num <= 23 THEN "Round " \o Str(Decimal(round_num))
    ELSE get(finals_names, round_num, "Finals Week " \o Str(Decimal(round_num - 24)))

\* the name the listing gives a round number
round_name(round_num) ==
    IF round_num <= 23 THEN "Round " \o Str(Decimal(round_num))
    ELSE get(finals_names, round_num, "Finals Week " \o Str(Decimal(round_num - 23)))

\* round_list, one dictionary per collected round in ascending order
round_list(numbers) ==
    [i \in 1..Len(numbers) |-> [number |-> numbers[i], name |-> round_name(numbers[i])]]

\* the basic structure returned when the request or the decoding raised
fallback_rounds == [i \in 1..23 |-> [number |-> i, name |-> "Round " \o Str(Decimal(i))]]

\* the answers that raise inside the try block of the listing: a response
\* without a "games" key is read as an empty list and raises nothing
RoundsRaising == FailureKinds \ {"NoGamesKey"}

\* one call of the listing for a season: the list returned and the query sent
get_all_rounds(year, resp) ==
    [value   |-> IF resp.kind \in RoundsRaising THEN fallback_rounds
                 ELSE round_list(sorted(round_set(resp.games))),
     fetches |-> <<[year |-> year, round |-> None]>>]

get_all_rounds_2024(resp) == get_all_rounds(2024, resp)

get_all_rounds_2025(resp) == get_all_rounds(2025, resp)

\* the round numbers upstream games carry in the listing specification
RoundNumbers == {0, 1, 5, 23, 24, 25, 26, 27, 28, 29, 99}

\* upstream games as the listing reads them: a round number, or none
RoundGames == {[round |-> n] : n \in RoundNumbers} \cup {Carrying(FullGame(1, <<>>), {})}

RoundResponses ==
    {Failure(k) : k \in FailureKinds} \cup {GamesResponse(gs) : gs \in SeqsUpTo(RoundGames, MaxGames)}

Seasons == {2024, 2025}

PendingRounds(year, resp) ==
    [op |-> "pending", year |-> year, resp |-> resp, value |-> <<>>, fetches |-> <<>>]

InitRounds ==
    /\ now = FirstDay * 24
    /\ started = now
    /\ _afl_fixtures_cache = None
    /\ _cache_timestamp = None
    /\ call = NoCall
    /\ api = NoCall
    /\ text = NoText
    /\ threads = NoThreads
    /\ rounds \in {PendingRounds(y, resp) : y \in Seasons, resp \in RoundResponses}

\* one call of get_all_rounds_2024 or get_all_rounds_2025 (GET /api/rounds)
RoundsCall ==
    /\ rounds.op = "pending"
    /\ \E r \in {IF rounds.year = 2024 THEN get_all_rounds_2024(rounds.resp)
                 ELSE get_all_rounds_2025(rounds.resp)} :
          rounds' = [op |-> "get_all_rounds", year |-> rounds.year, resp |-> rounds.resp,
                     value |-> r.value, fetches |-> r.fetches]
    /\ UNCHANGED <<now, started, _afl_fixtures_cache, _cache_timestamp, call, api, text, threads>>

NextRounds == RoundsCall

SpecRounds == InitRounds /\ [][NextRounds]_vars

-----------------------------------------------------------------------------
(* Properties of the rounds listing, under SpecRounds.                     *)

RoundsDone == rounds.op = "get_all_rounds"

\* the name the round naming rule gives n
NamedByRule(n) ==
    CASE n \in 1..23 -> "Round " \o Str(Decimal(n))
      [] n = 24 -> "Elimination Finals"
      [] n = 25 -> "Qualifying Finals"
      [] n = 26 -> "Semi Finals"
      [] n = 27 -> "Preliminary Finals"
      [] n = 28 -> "Grand Final"
      [] OTHER -> "Finals Week " \o Str(Decimal(n - 23))

\* C11: every round the rounds listing emits is named by the rule: n in
\* 1..23 is "Round n" (5 gives "Round 5"); 24..28 are "Elimination Finals",
\* "Qualifying Finals", "Semi Finals", "Preliminary Finals", "Grand Final";
\* any other n above 23 is "Finals Week (n-23)" (99 gives "Finals Week 76").
C11_RoundNaming ==
    RoundsDone =>
        \A i \in 1..Len(rounds.value) :
            /\ rounds.value[i].number >= 1
            /\ rounds.value[i].name = NamedByRule(rounds.value[i].number)
            /\ rounds.value[i].number = 5 => rounds.value[i].name = "Round 5"
            /\ rounds.value[i].number = 99 => rounds.value[i].name = "Finals Week 76"

\* a listing built from upstream games that holds the Grand Final and an
\* unmapped finals week
C11_Witness ==
    /\ RoundsDone
    /\ rounds.resp.kind = "Games"
    /\ Len(rounds.value) = 2
    /\ rounds.value[1].number = 28
    /\ rounds.value[2].number = 99

-----------------------------------------------------------------------------
(* The size of a parse result, under SpecText.                             *)

\* C12: the result of parsing page text is truncated to at most 8 fixtures:
\* however many valid matchup lines the text contains,
\* parse_afl_fixture_text returns no more than 8 fixtures.
C12_AtMostEightFixtures ==
    text.op = "parse_afl_fixture_text" => Len(text.fixtures) <= 8

-----------------------------------------------------------------------------
(* Default requests served concurrently: get_afl_fixtures run by several   *)
(* threads of one process over the two module globals, one step per        *)
(* statement that reads or writes a global.                                *)

Threads == 1..MaxThreads

\* a thread that has served no request yet; `fetched` remembers the
\* fixtures and the `now` of the thread's last request that fetched
IdleThread == [pc |-> "idle", now |-> 0, fixtures |-> <<>>, value |-> <<>>, fetched |-> None]

\* the upstream answers of the concurrent specification
RaceResponses ==
    {Failure("Timeout"),
     GamesResponse(<<FullGame(1, <<"2", "0", "2", "4", "-", "0", "3", "-", "1", "4", " ", "1", "9", ":", "3", "0", ":", "0", "0">>)>>),
     GamesResponse(<<FullGame(2, <<"2", "0", "2", "4", "-", "0", "3", "-", "1", "5">>)>>)}

InitRace ==
    /\ now = FirstDay * 24
    /\ started = now
    /\ _afl_fixtures_cache = None
    /\ _cache_timestamp = None
    /\ call = NoCall
    /\ api = NoCall
    /\ text = NoText
    /\ rounds = NoRounds
    /\ threads = [t \in Threads |-> IdleThread]

\* a default request arrives at a free thread: `now = datetime.now()`
Begin(t) ==
    /\ threads[t].pc \in {"idle", "done"}
    /\ threads' = [threads EXCEPT ![t] = [pc |-> "l27", now |-> now, fixtures |-> <<>>,
                                          value |-> <<>>, fetched |-> @.fetched]]
    /\ UNCHANGED <<now, started, _afl_fixtures_cache, _cache_timestamp, call, api, text, rounds>>

\* `if _cache_timestamp and _afl_fixtures_cache:`
TestEntry(t) ==
    /\ threads[t].pc = "l27"
    /\ threads' = [threads EXCEPT ![t].pc =
                      IF /\ _cache_timestamp # None
                         /\ _afl_fixtures_cache # None
                         /\ _afl_fixtures_cache[1] # <<>>
                      THEN "l28" ELSE "l33"]
    /\ UNCHANGED <<now, started, _afl_fixtures_cache, _cache_timestamp, call, api, text, rounds>>

\* `if now - _cache_timestamp < timedelta(hours=12):`
TestAge(t) ==
    /\ threads[t].pc = "l28"
    /\ threads' = [threads EXCEPT ![t].pc =
                      IF threads[t].now - _cache_timestamp[1] < FreshHours THEN "l29" ELSE "l33"]
    /\ UNCHANGED <<now, started, _afl_fixtures_cache, _cache_timestamp, call, api, text, rounds>>

\* `return _afl_fixtures_cache`
ReturnCached(t) ==
    /\ threads[t].pc = "l29"
    /\ threads' = [threads EXCEPT ![t].pc = "done", ![t].value = _afl_fixtures_cache[1]]
    /\ UNCHANGED <<now, started, _afl_fixtures_cache, _cache_timestamp, call, api, text, rounds>>

\* `fixtures = get_afl_fixtures_api()` and the test `if fixtures:`
Fetch(t, resp) ==
    /\ threads[t].pc = "l33"
    /\ \E r \in {get_afl_fixtures_api(2025, None, resp, now)} :
          threads' = [threads EXCEPT ![t].pc = IF r.value # <<>> THEN "l36" ELSE "l40",
                                     ![t].fixtures = r.value,
                                     ![t].fetched = Some([fixtures |-> r.value, now |-> threads[t].now])]
    /\ UNCHANGED <<now, started, _afl_fixtures_cache, _cache_timestamp, call, api, text, rounds>>

\* `_afl_fixtures_cache = fixtures`
StoreCache(t) ==
    /\ threads[t].pc = "l36"
    /\ _afl_fixtures_cache' = Some(threads[t].fixtures)
    /\ threads' = [threads EXCEPT ![t].pc = "l37"]
    /\ UNCHANGED <<now, started, _cache_timestamp, call, api, text, rounds>>

\* `_cache_timestamp = now`
StoreTimestamp(t) ==
    /\ threads[t].pc = "l37"
    /\ _cache_timestamp' = Some(threads[t].now)
    /\ threads' = [threads EXCEPT ![t].pc = "l40"]
    /\ UNCHANGED <<now, started, _afl_fixtures_cache, call, api, text, rounds>>

\* `return fixtures or []`
ReturnFetched(t) ==
    /\ threads[t].pc = "l40"
    /\ threads' = [threads EXCEPT ![t].pc = "done", ![t].value = threads[t].fixtures]
    /\ UNCHANGED <<now, started, _afl_fixtures_cache, _cache_timestamp, call, api, text, rounds>>

\* the clock moves on by the length of the freshness window
RaceTickHours == {FreshHours}

NextRace ==
    \/ \E h \in RaceTickHours : Tick(h)
    \/ \E t \in Threads : Begin(t)
    \/ \E t \in Threads : TestEntry(t)
    \/ \E t \in Threads : TestAge(t)
    \/ \E t \in Threads : ReturnCached(t)
    \/ \E t \in Threads, resp \in RaceResponses : Fetch(t, resp)
    \/ \E t \in Threads : StoreCache(t)
    \/ \E t \in Threads : StoreTimestamp(t)
    \/ \E t \in Threads : ReturnFetched(t)

SpecRace == InitRace /\ [][NextRace]_vars

-----------------------------------------------------------------------------
(* Properties of concurrent refreshes, under SpecRace.                     *)

\* every request that arrived has returned
AllFinished ==
    /\ \A t \in Threads : threads[t].pc \in {"idle", "done"}
    /\ \E t \in Threads : threads[t].pc = "done"

\* C13: under every interleaving of concurrent default requests that
\* refresh an absent or expired cache, once all requests have finished the
\* cache holds the fixtures and the timestamp written by one and the same
\* request; the stored fixtures are never paired with another request's
\* timestamp.
C13_EntryWrittenByOneRequest ==
    (AllFinished /\ _afl_fixtures_cache # None) =>
        \E t \in Threads :
            /\ threads[t].fetched # None
            /\ _afl_fixtures_cache = Some(threads[t].fetched[1].fixtures)
            /\ _cache_timestamp = Some(threads[t].fetched[1].now)

-----------------------------------------------------------------------------
(* The pages of routes.py that query the upstream API: /api/fixtures,      *)
(* /submit-tips and /api/rounds, served one request after the other.       *)

\* the upstream answers to the rounds query of the pages specification
PageRoundResponses ==
    {Failure("Timeout"), GamesResponse(<<[round |-> 1], [round |-> 24]>>)}

\* GET /submit-tips: the fixtures of the round asked for, then the rounds
SubmitTips(round_num, resp, rounds_resp) ==
    \E r \in {get_afl_fixtures(round_num, resp, now, _cache_timestamp, _afl_fixtures_cache)},
       l \in {get_all_rounds_2024(rounds_resp)} :
        /\ _afl_fixtures_cache' = r.cache
        /\ _cache_timestamp' = r.ts
        /\ call' = [op |-> "get_afl_fixtures", round_num |-> round_num, resp |-> resp,
                    raised |-> r.raised, value |-> r.value, fallback |-> r.fallback,
                    fetches |-> r.fetches, hit |-> r.hit]
        /\ rounds' = [op |-> "get_all_rounds", year |-> 2024, resp |-> rounds_resp,
                      value |-> l.value, fetches |-> l.fetches]
        /\ UNCHANGED <<now, started, api, text, threads>>

\* GET /api/rounds
GetRounds(rounds_resp) ==
    /\ \E l \in {get_all_rounds_2024(rounds_resp)} :
          rounds' = [op |-> "get_all_rounds", year |-> 2024, resp |-> rounds_resp,
                     value |-> l.value, fetches |-> l.fetches]
    /\ UNCHANGED <<now, started, _afl_fixtures_cache, _cache_timestamp, call, api, text, threads>>

InitPages ==
    /\ now = FirstDay * 24
    /\ started = now
    /\ _afl_fixtures_cache = None
    /\ _cache_timestamp = None
    /\ call = NoCall
    /\ api = NoCall
    /\ text = NoText
    /\ rounds = NoRounds
    /\ threads = NoThreads

NextPages ==
    \/ \E h \in RaceTickHours : Tick(h)
    \/ \E round_num \in RoundArgs, resp \in CacheResponses : Request(round_num, resp)
    \/ \E round_num \in RoundArgs, resp \in CacheResponses, rounds_resp \in PageRoundResponses :
          SubmitTips(round_num, resp, rounds_resp)
    \/ \E rounds_resp \in PageRoundResponses : GetRounds(rounds_resp)

SpecPages == InitPages /\ [][NextPages]_vars

-----------------------------------------------------------------------------
(* Properties of the season queried, under SpecPages.                      *)

\* the season years of the upstream queries of the last fixtures call and
\* of the last rounds listing
QueriedYears ==
    {call.fetches[i].year : i \in 1..Len(call.fetches)}
    \cup {rounds.fetches[i].year : i \in 1..Len(rounds.fetches)}

\* C14: over any sequence of requests, every upstream fixture query issued
\* by get_afl_fixtures, for a specific round or for the default view,
\* targets the same season year, which is also the season of the rounds
\* listing served next to it: the queries recorded after a request agree
\* with one another and with those recorded before it.
C14_OneSeasonQueried ==
    [][\A y \in QueriedYears' : QueriedYears' \subseteq {y} /\ QueriedYears \subseteq {y}]_vars

====
